---- MODULE Spec2Model ----
(***************************************************************************)
(* A model of src/04-Train.ipynb: the Dice loss (DiceLoss.forward), the    *)
(* per-batch training and validation steps of AtriumSegmentation, and the  *)
(* epoch loop and top-k checkpoint callback that the notebook configures   *)
(* with pl.Trainer(...) and ModelCheckpoint(...).                          *)
(*                                                                         *)
(* Numbers.  Tensor entries are multiples of 1/Scale, held as integers:    *)
(* the entry a stands for a/Scale, so Scale stands for 1.0.  The constant  *)
(* 1e-8 of DiceLoss.forward is held exactly as 1/EpsInv.  A quantity that  *)
(* involves it is an "eps form" <<A, B>>, standing for A + B*1e-8, and a   *)
(* quotient is a pair of eps forms [num, den].  All arithmetic is exact    *)
(* (the notebook computes in float32; its rounding is what the tolerance   *)
(* in the "approximately" statements absorbs).                             *)
(***************************************************************************)
EXTENDS Integers, Sequences, FiniteSets, TLC

\* ------------------------------------------------------------ bounds
\* Entries are multiples of 1/Scale.
Scale == 2
\* The largest number of elements of an enumerated tensor.
MaxLen == 3

\* Trainer(max_epochs=...): the notebook passes 75; the loop is the same for
\* every positive value and the model runs it for this many epochs.
max_epochs == 4
\* ModelCheckpoint(save_top_k=...): the notebook passes 10; the policy is the
\* same for every positive value and the model keeps this many.
save_top_k == 2
\* Datasets hold up to MaxBatches full batches.
MaxBatches == 2
\* A step's loss is a level 0..MaxLoss, in tenths (0.0, 0.1, ...).
MaxLoss == 5
\* the largest batch_idx a step is called with on its own (the training
\* loader of the source yields 242 batches)
MaxBatchIdx == 100

\* ------------------------------------------------------------ constants
\* 1 / 1e-8, the constant added to the denominator (DiceLoss.forward).
EpsInv == 100000000
\* DataLoader(batch_size=batch_size)
batch_size == 8
\* pl.Trainer's default num_sanity_val_steps (the notebook does not set it)
num_sanity_val_steps == 2

VARIABLES
    pred,       \* the tensor passed as pred to DiceLoss.forward
    mask,       \* the tensor passed as mask to DiceLoss.forward
    out,        \* what the call produced (NotCalled before it)
    call,       \* the other arguments of a step called on its own:
                \* [kind, idx], the step and its batch_idx (NoStep otherwise)
    trainSize,  \* len(train_dataset)
    valSize,    \* len(val_dataset)
    stage,      \* where trainer.fit is: "idle" (not started), "sanity",
                \* "train", "val", "epoch_end", "done", "interrupted"
    epoch,      \* trainer.current_epoch
    batchIdx,   \* batch_idx of the next batch of the running loop
    consumed,   \* samples the running loop's DataLoader has yielded so far
    globalStep, \* trainer.global_step: optimizer steps taken
    valAcc,     \* sum of loss * batch length over this epoch's validation steps
    bestK,      \* ModelCheckpoint.best_k_models, in insertion order:
                \* records [epoch, score]
    kthBest,    \* ModelCheckpoint.kth_best_model_path, as the record's epoch
    trainCount, \* training steps executed in the current epoch
    valCount,   \* validation steps executed in the current epoch
    ckptCalls,  \* times the checkpoint policy has been invoked
    epochLog,   \* per completed epoch: [score, train, val], the candidate's
                \* score and the steps the epoch executed
    params,     \* the model's parameter state, as the number of optimizer
                \* updates that produced it
    saved,      \* the checkpoint files on disk: records [epoch, params]
    loggerStep, \* the step the logger tags scalars with: the training batches
                \* whose end-of-batch bookkeeping is done
    metricLog,  \* the scalars sent to the logger, in order: [name, step]
    lastMetric, \* the latest of them with its value: [name, step, value]
    figLog,     \* the figures sent to the logger, in order: [name, step]
    lastStep    \* the latest training_step / validation_step call:
                \* [kind, idx, loss, figure]

diceVars == <<pred, mask, out, call>>
fitVars == <<trainSize, valSize, stage, epoch, batchIdx, consumed, globalStep,
             valAcc, bestK, kthBest, trainCount, valCount, ckptCalls, epochLog,
             params, saved, loggerStep, metricLog, lastMetric, figLog,
             lastStep>>
vars == <<pred, mask, out, call, trainSize, valSize, stage, epoch, batchIdx,
          consumed, globalStep, valAcc, bestK, kthBest, trainCount, valCount, ckptCalls,
          epochLog, params, saved, loggerStep, metricLog, lastMetric, figLog,
          lastStep>>

\* ------------------------------------------------------------ helpers
RECURSIVE SumSeq(_)
SumSeq(s) == IF s = <<>> THEN 0 ELSE Head(s) + SumSeq(Tail(s))

RECURSIVE ConcatRows(_)
ConcatRows(rows) ==
    IF rows = <<>> THEN <<>> ELSE Head(rows) \o ConcatRows(Tail(rows))

\* ceil(a / b) for b > 0 (\div rounds down)
CeilDiv(a, b) == -((-a) \div b)

\* ------------------------------------------------------ eps forms
\* <<A, B>> stands for A + B * 1e-8.
FSub(x, y) == <<x[1] - y[1], x[2] - y[2]>>
FScale(k, x) == <<k * x[1], k * x[2]>>
\* A + B/EpsInv <= 0  iff  B/EpsInv <= -A  iff  ceil(B/EpsInv) <= -A
FLeqZero(x) == x[1] + CeilDiv(x[2], EpsInv) <= 0
FIsZero(x) == FLeqZero(x) /\ FLeqZero(FScale(-1, x))
FPos(x) == ~FLeqZero(x)

\* ------------------------------------------------------ tensors
\* A tensor is a sequence of rows of equal length; <<>> is the empty tensor.
\* Entries: 0, 1/Scale (a proper fraction), 1 and 2.
Values == {0, 1, Scale, 2 * Scale}

RowsOf(r, c) == [1..r -> [1..c -> Values]]

Shapes == {sh \in (1..MaxLen) \X (1..MaxLen) : sh[1] * sh[2] <= MaxLen}

\* the two arrays of the spec's worked scenario, as 1 x 4 tensors
ScenarioP == << <<Scale, Scale, 0, 0>> >>
ScenarioM == << <<Scale, 0, 0, 0>> >>

Tensors ==
    {<<>>} \cup (UNION {RowsOf(sh[1], sh[2]) : sh \in Shapes})
           \cup {ScenarioP, ScenarioM}

ShapeOf(t) == IF t = <<>> THEN <<0, 0>> ELSE <<Len(t), Len(t[1])>>

\* a variant: only the first row is taken
FlattenFirstRow(t) == IF t = <<>> THEN <<>> ELSE t[1]

\* torch.flatten: the entries in row-major order
Flatten(t) == ConcatRows(t)

\* unsqueeze / reshape: the same entries in the same row-major order under
\* the shape sh, whose sizes multiply to the number of entries
Reshape(t, sh) ==
    [i \in 1..sh[1] |-> [j \in 1..sh[2] |-> Flatten(t)[(i - 1) * sh[2] + j]]]

\* the shapes a tensor can be reshaped to
ShapesOf(t) ==
    LET n == Len(Flatten(t))
    IN  {sh \in (1..n) \X (1..n) : sh[1] * sh[2] = n}

\* ------------------------------------------------------ DiceLoss
NotCalled == [kind |-> "none"]
ShapeError == [kind |-> "error"]

\* pred * mask on two one-dimensional tensors: elementwise when the lengths
\* agree, a one-element tensor is broadcast against the other, and any other
\* pair of lengths raises.
CanMultiply(p, m) == Len(p) = Len(m) \/ Len(p) = 1 \/ Len(m) = 1

Multiply(p, m) ==
    IF Len(p) = Len(m) THEN [i \in 1..Len(p) |-> p[i] * m[i]]
    ELSE IF Len(p) = 1 THEN [i \in 1..Len(m) |-> p[1] * m[i]]
    ELSE [i \in 1..Len(p) |-> p[i] * m[1]]

\* a variant: the product is left out, counter = pred.sum()
CounterPredSum(p, m) == Scale * SumSeq(p)

\* counter = (pred * mask).sum(), in units of 1/Scale^2
Counter(p, m) == SumSeq(Multiply(p, m))

\* variants: the 1e-8 is left out; pred.sum() is taken twice
DenumNoEps(p, m) == <<SumSeq(p) + SumSeq(m), 0>>
DenumPredTwice(p, m) == <<SumSeq(p) + SumSeq(p), Scale>>

\* denum = pred.sum() + mask.sum() + 1e-8, as an eps form in units of 1/Scale
Denum(p, m) == <<SumSeq(p) + SumSeq(m), Scale>>

\* x / y for eps forms in the same units; a zero divisor gives what float
\* division gives: nan for 0/0, inf otherwise
Divide(x, y) ==
    IF FIsZero(y)
    THEN (IF FIsZero(x) THEN [kind |-> "nan"] ELSE [kind |-> "inf"])
    ELSE IF FPos(y) THEN [kind |-> "value", num |-> x, den |-> y]
    ELSE [kind |-> "value", num |-> FScale(-1, x), den |-> FScale(-1, y)]

\* a variant: the score is returned in place of the loss
OneMinusSame(q) == q

\* 1 - q
OneMinus(q) ==
    IF q.kind = "value"
    THEN [kind |-> "value", num |-> FSub(q.den, q.num), den |-> q.den]
    ELSE IF q.kind = "inf" THEN [kind |-> "inf"] ELSE [kind |-> "nan"]

\* a variant: the numerator is doubled twice
DiceFour(p, m) == Divide(<<4 * Counter(p, m), 0>>, FScale(Scale, Denum(p, m)))

\* dice = (2*counter)/denum: counter is in 1/Scale^2 and denum in 1/Scale, so
\* both are brought to units of 1/Scale^2
Dice(p, m) == Divide(<<2 * Counter(p, m), 0>>, FScale(Scale, Denum(p, m)))

Forward(p, m) ==
    LET fp == Flatten(p)
        fm == Flatten(m)
    IN  IF ~CanMultiply(fp, fm) THEN ShapeError
        ELSE [loss |-> OneMinus(Dice(fp, fm)),
              kind |-> "returned",
              denum |-> Denum(fp, fm),
              counter |-> Counter(fp, fm)]

\* ------------------------------------------------------ DataLoader
Min(a, b) == IF a <= b THEN a ELSE b

\* Dataset sizes: for each number of batches k, the smallest and the largest
\* dataset that needs k batches.
Sizes ==
    UNION {{batch_size * (k - 1) + 1, batch_size * k} : k \in 1..MaxBatches}

\* a variant: drop_last=True, a final partial batch is not yielded
NextBatchDropLast(size, done) ==
    IF size - done >= batch_size THEN batch_size ELSE 0

\* The length of the next batch of a DataLoader(batch_size=batch_size) over
\* `size` samples of which `done` were yielded (drop_last is left at False: a
\* final partial batch is yielded); 0 when the loader is exhausted.
NextBatch(size, done) == Min(batch_size, size - done)

\* ------------------------------------------------------ ModelCheckpoint
\* ModelCheckpoint(monitor='Val Dice', save_top_k=save_top_k, mode='min').
\* best_k_models maps a checkpoint file to its score; the model keeps it as the
\* sequence of its entries in insertion order, a file named by its epoch.
NoCheckpoint == -1

RECURSIVE MaxScore(_)
MaxScore(best) ==
    IF Len(best) = 1 THEN best[1].score
    ELSE LET m == MaxScore(Tail(best))
         IN  IF best[1].score >= m THEN best[1].score ELSE m

\* max(best_k_models, key=best_k_models.get): the first entry, in insertion
\* order, with the highest score
WorstIndex(best) ==
    CHOOSE i \in 1..Len(best) :
        /\ best[i].score = MaxScore(best)
        /\ \A j \in 1..(i - 1) : best[j].score # MaxScore(best)

ScoreOf(best, e) ==
    LET i == CHOOSE j \in 1..Len(best) : best[j].epoch = e IN best[i].score

RemoveEpoch(best, e) == SelectSeq(best, LAMBDA r : r.epoch # e)

\* a variant: mode='max', monitor_op is torch.gt
MonitorOpMax(current, kthValue) == current > kthValue

\* a variant: a candidate that ties with the k-th best replaces it
MonitorOpLeq(current, kthValue) == current <= kthValue

\* mode='min': monitor_op is torch.lt
MonitorOp(current, kthValue) == current < kthValue

\* a variant: every candidate is saved
CheckAlwaysSave(best, kth, current) == TRUE

\* check_monitor_top_k
CheckMonitorTopK(best, kth, current) ==
    \/ Len(best) < save_top_k
    \/ MonitorOp(current, ScoreOf(best, kth))

\* _update_best_and_save: drop the k-th best when k are held, add the
\* candidate, and name the new k-th best once k are held
UpdateBest(best, kth, cand) ==
    LET kept == IF Len(best) = save_top_k THEN RemoveEpoch(best, kth) ELSE best
    IN  Append(kept, cand)

UpdateKth(best, kth) ==
    IF Len(best) = save_top_k THEN best[WorstIndex(best)].epoch ELSE kth

\* ------------------------------------------------------ the steps
NoMetric == [name |-> "none"]
NoStep == [kind |-> "none"]

\* self.log("Train Dice", loss) / self.log("Val Dice", loss)
MetricName(kind) == IF kind = "train" THEN "Train Dice" ELSE "Val Dice"
\* log_images(..., "Train") / log_images(..., "Val")
FigureName(kind) == IF kind = "train" THEN "Train" ELSE "Val"

\* a variant: validation scalars are sent per step as well
LogOnStepAlways(kind) == TRUE

\* self.log(name, loss) with its defaults: in training_step the value is sent
\* to the logger for the step (log_every_n_steps=1: for every step); in
\* validation_step it is accumulated and its mean is sent once per epoch.
LogOnStep(kind) == kind = "train"
LogOnEpoch(kind) == kind # "train"

\* a variant: validation steps use the training cadence
EmitsFigureFifty(kind, idx) == idx % 50 = 0

\* if batch_idx % 50 == 0 (training_step) / if batch_idx % 2 == 0
\* (validation_step): self.log_images(...)
EmitsFigure(kind, idx) ==
    IF kind = "train" THEN idx % 50 = 0 ELSE idx % 2 = 0

\* the scalars a step sends to the logger, tagged with `step`
StepScalars(kind, step) ==
    IF LogOnStep(kind) THEN <<[name |-> MetricName(kind), step |-> step]>>
    ELSE <<>>

\* the figures a step sends: add_figure(name, fig, self.global_step)
StepFigures(kind, idx, gstep) ==
    IF EmitsFigure(kind, idx) THEN <<[name |-> FigureName(kind), step |-> gstep]>>
    ELSE <<>>

\* the record of a step call
StepRecord(kind, idx, loss) ==
    [kind |-> kind, idx |-> idx, loss |-> loss, figure |-> EmitsFigure(kind, idx)]

\* ------------------------------------------------------ trainer.fit
\* The loop is pytorch_lightning's, as pl.Trainer(logger=..., log_every_n_steps=1,
\* callbacks=checkpoint_callback, max_epochs=...) configures it: a sanity check,
\* then per epoch the training batches, the validation batches, and the
\* callback's on_train_epoch_end.
FitNotStarted ==
    /\ stage = "idle"
    /\ epoch = 0 /\ batchIdx = 0 /\ consumed = 0 /\ globalStep = 0
    /\ valAcc = 0
    /\ bestK = <<>> /\ kthBest = NoCheckpoint
    /\ trainCount = 0 /\ valCount = 0 /\ ckptCalls = 0
    /\ epochLog = <<>>
    /\ params = 0
    /\ saved = {}
    /\ loggerStep = 0
    /\ metricLog = <<>> /\ lastMetric = NoMetric
    /\ figLog = <<>>
    /\ lastStep = NoStep

\* a variant: every step updates the parameters
AfterStepAlways(kind, p) == p + 1

\* The parameters after a step: a training step's loss goes through the
\* backward pass and the optimizer of configure_optimizers; what a validation
\* step returns is not used.
AfterStep(kind, p) == IF kind = "train" THEN p + 1 ELSE p

\* a variant: the interrupt handler writes a checkpoint of the running epoch
FilesOnInterruptSave(files, e, p) == files \cup {[epoch |-> e, params |-> p]}

\* The checkpoint files after a KeyboardInterrupt in epoch e with parameters
\* p: the callback has no handler for it, nothing is written or removed.
FilesOnInterrupt(files, e, p) == files

\* _update_best_and_save on disk: the candidate's file is written and the
\* file of the record that left best_k_models is removed
FilesAfterSave(files, best, e, p) ==
    {f \in files : \E i \in 1..Len(best) : best[i].epoch = f.epoch}
        \cup {[epoch |-> e, params |-> p]}

\* The loss a step computes, self.loss_fn(pred, mask), as a level: the network
\* that produces pred is not part of the model, so any level may come out.
\* Runs with several validation batches draw from two levels only.
LossLevels(size) == IF size <= batch_size THEN 0..MaxLoss ELSE 0..1

SanityLimit == num_sanity_val_steps

\* a variant: the validation loop runs after every training batch
ShouldCheckValEveryBatch(size, done) == TRUE

\* Trainer's default val_check_interval = 1.0: the validation loop runs once
\* the training loader, of which `done` samples were yielded, is exhausted.
ShouldCheckVal(size, done) == NextBatch(size, done) <= 0

\* a variant: a perfect validation score ends the run
ShouldStopEarly(e, score) == e >= max_epochs \/ score = 0

\* Trainer(max_epochs=...) with no EarlyStopping callback: fit stops once e
\* epochs were run, whatever the epoch's validation score.
ShouldStop(e, score) == e >= max_epochs

\* trainer.fit starts with the sanity check: validation batches, before any
\* training
Fit ==
    /\ stage = "idle"
    /\ stage' = "sanity"
    /\ UNCHANGED <<trainSize, valSize, epoch, batchIdx, consumed, globalStep,
                   valAcc, bestK, kthBest, trainCount, valCount, ckptCalls,
                   epochLog, params, saved, loggerStep, metricLog, lastMetric,
                   figLog, lastStep>>
    /\ UNCHANGED diceVars

\* One validation_step of the sanity check: its scalar is not sent to the
\* logger, its figure is (log_images calls the logger itself). The check ends
\* after num_sanity_val_steps batches or with the loader.
SanityStep ==
    /\ stage = "sanity"
    /\ batchIdx < SanityLimit
    /\ NextBatch(valSize, consumed) > 0
    /\ \E loss \in LossLevels(valSize) :
        LET n == NextBatch(valSize, consumed)
            last == batchIdx + 1 = SanityLimit
                    \/ NextBatch(valSize, consumed + n) <= 0
        IN  /\ stage' = IF last THEN "train" ELSE "sanity"
            /\ batchIdx' = IF last THEN 0 ELSE batchIdx + 1
            /\ consumed' = IF last THEN 0 ELSE consumed + n
            /\ lastStep' = StepRecord("val", batchIdx, loss)
    /\ figLog' = figLog \o StepFigures("val", batchIdx, globalStep)
    /\ params' = AfterStep("val", params)
    /\ UNCHANGED <<trainSize, valSize, epoch, globalStep, valAcc, bestK,
                   kthBest, trainCount, valCount, ckptCalls, epochLog, saved,
                   loggerStep, metricLog, lastMetric>>
    /\ UNCHANGED diceVars

\* One training_step with its backward pass and optimizer step; its scalar is
\* sent to the logger. After the last batch of the loader the validation loop
\* starts, and the logger's step moves on only after that loop.
TrainingStep ==
    /\ stage = "train"
    /\ NextBatch(trainSize, consumed) > 0
    /\ \E loss \in LossLevels(trainSize) :
        LET n == NextBatch(trainSize, consumed)
            last == ShouldCheckVal(trainSize, consumed + n)
            sent == StepScalars("train", loggerStep)
        IN  /\ globalStep' = globalStep + 1
            /\ trainCount' = trainCount + 1
            /\ stage' = IF last THEN "val" ELSE "train"
            /\ batchIdx' = IF last THEN 0 ELSE batchIdx + 1
            /\ consumed' = IF last THEN 0 ELSE consumed + n
            /\ loggerStep' = IF last THEN loggerStep ELSE loggerStep + 1
            /\ lastStep' = StepRecord("train", batchIdx, loss)
            /\ metricLog' = metricLog \o sent
            /\ lastMetric' =
                  IF sent = <<>> THEN lastMetric
                  ELSE [name |-> sent[1].name, step |-> sent[1].step,
                        value |-> loss]
    /\ figLog' = figLog \o StepFigures("train", batchIdx, globalStep)
    /\ params' = AfterStep("train", params)
    /\ UNCHANGED <<trainSize, valSize, epoch, valAcc, bestK, kthBest, valCount,
                   ckptCalls, epochLog, saved>>
    /\ UNCHANGED diceVars

\* One validation_step: self.log("Val Dice", loss) adds the loss, weighted by
\* the batch length, to the epoch's mean. After the last batch the mean is
\* sent to the logger, the logger's step moves on and the training epoch ends.
ValidationStep ==
    /\ stage = "val"
    /\ NextBatch(valSize, consumed) > 0
    /\ \E loss \in LossLevels(valSize) :
        LET n == NextBatch(valSize, consumed)
            last == NextBatch(valSize, consumed + n) <= 0
            perStep == StepScalars("val", loggerStep)
            perEpoch ==
                IF last /\ LogOnEpoch("val")
                THEN <<[name |-> MetricName("val"), step |-> loggerStep]>>
                ELSE <<>>
        IN  /\ valAcc' = valAcc + loss * n
            /\ valCount' = valCount + 1
            /\ stage' = IF last THEN "epoch_end" ELSE "val"
            /\ batchIdx' = IF last THEN 0 ELSE batchIdx + 1
            /\ consumed' = IF last THEN 0 ELSE consumed + n
            /\ loggerStep' = IF last THEN loggerStep + 1 ELSE loggerStep
            /\ lastStep' = StepRecord("val", batchIdx, loss)
            /\ metricLog' = metricLog \o perStep \o perEpoch
            /\ lastMetric' =
                  IF perEpoch # <<>>
                  THEN [name |-> perEpoch[1].name, step |-> perEpoch[1].step,
                        value |-> valAcc + loss * n]
                  ELSE IF perStep # <<>>
                  THEN [name |-> perStep[1].name, step |-> perStep[1].step,
                        value |-> loss]
                  ELSE lastMetric
    /\ figLog' = figLog \o StepFigures("val", batchIdx, globalStep)
    /\ params' = AfterStep("val", params)
    /\ UNCHANGED <<trainSize, valSize, epoch, globalStep, bestK, kthBest,
                   trainCount, ckptCalls, epochLog, saved>>
    /\ UNCHANGED diceVars

\* on_train_epoch_end: the checkpoint callback is offered the epoch's
\* 'Val Dice' (the mean over the validation set; valAcc is that mean times
\* len(val_dataset), the same in every epoch); then the next epoch starts, or
\* fit returns once max_epochs epochs were run.
TrainEpochEnd ==
    /\ stage = "epoch_end"
    /\ LET cand == [epoch |-> epoch, score |-> valAcc]
           save == CheckMonitorTopK(bestK, kthBest, valAcc)
           best == IF save THEN UpdateBest(bestK, kthBest, cand) ELSE bestK
       IN  /\ bestK' = best
           /\ kthBest' = IF save THEN UpdateKth(best, kthBest) ELSE kthBest
           /\ saved' = IF save THEN FilesAfterSave(saved, best, epoch, params)
                       ELSE saved
    /\ ckptCalls' = ckptCalls + 1
    /\ epochLog' = Append(epochLog, [score |-> valAcc, train |-> trainCount,
                                     val |-> valCount])
    /\ epoch' = epoch + 1
    /\ stage' = IF ShouldStop(epoch + 1, valAcc) THEN "done" ELSE "train"
    /\ valAcc' = 0 /\ trainCount' = 0 /\ valCount' = 0
    /\ UNCHANGED <<trainSize, valSize, batchIdx, consumed, globalStep, params,
                   loggerStep, metricLog, lastMetric, figLog, lastStep>>
    /\ UNCHANGED diceVars

\* KeyboardInterrupt while fit runs: fit shuts down, nothing else changes
Interrupt ==
    /\ stage \in {"sanity", "train", "val", "epoch_end"}
    /\ stage' = "interrupted"
    /\ saved' = FilesOnInterrupt(saved, epoch, params)
    /\ UNCHANGED <<trainSize, valSize, epoch, batchIdx, consumed, globalStep,
                   valAcc, bestK, kthBest, trainCount, valCount, ckptCalls,
                   epochLog, params, loggerStep, metricLog, lastMetric, figLog,
                   lastStep>>
    /\ UNCHANGED diceVars

\* ------------------------------------------------------ specifications
\* One call of DiceLoss.forward on a pair of tensors; trainer.fit not started.
InitDice ==
    /\ pred \in Tensors
    /\ mask \in Tensors
    /\ out = NotCalled
    /\ call = NoStep
    /\ trainSize = 1 /\ valSize = 1
    /\ FitNotStarted

DiceLossCall ==
    /\ out = NotCalled
    /\ out' = Forward(pred, mask)
    /\ UNCHANGED <<pred, mask, call>>
    /\ UNCHANGED fitVars

NextDice == DiceLossCall

SpecDice == InitDice /\ [][NextDice]_vars

\* One training_step or validation_step called on its own, on a batch of two
\* one-pixel samples: pred, the network's output, has entries 0, 1/Scale and
\* 1; mask has entries 0 and 1.
StepPreds == [1..2 -> [1..1 -> {0, 1, Scale}]]
StepMasks == [1..2 -> [1..1 -> {0, Scale}]]

InitStep ==
    /\ pred \in StepPreds
    /\ mask \in StepMasks
    /\ out = NotCalled
    /\ call \in [kind : {"train", "val"}, idx : 0..MaxBatchIdx]
    /\ trainSize = 1 /\ valSize = 1
    /\ FitNotStarted

\* The step: the loss is computed, passed to self.log, a figure is sent when
\* the cadence says so, and the loss is returned. log_images binds its own
\* name pred to the thresholded tensor: the caller's tensors are untouched.
StepCall ==
    /\ call # NoStep
    /\ out = NotCalled
    /\ LET res == Forward(pred, mask)
           sent == StepScalars(call.kind, loggerStep)
       IN  /\ out' = res
           /\ IF res = ShapeError
              THEN UNCHANGED <<lastStep, metricLog, lastMetric, figLog>>
              ELSE /\ lastStep' = StepRecord(call.kind, call.idx, res.loss)
                   /\ metricLog' = metricLog \o sent
                   /\ lastMetric' =
                         IF sent = <<>> THEN lastMetric
                         ELSE [name |-> sent[1].name, step |-> sent[1].step,
                               value |-> res.loss]
                   /\ figLog' = figLog \o
                         StepFigures(call.kind, call.idx, globalStep)
    /\ UNCHANGED <<pred, mask, call>>
    /\ UNCHANGED <<trainSize, valSize, stage, epoch, batchIdx, consumed,
                   globalStep, valAcc, bestK, kthBest, trainCount, valCount,
                   ckptCalls, epochLog, params, saved, loggerStep>>

NextStep == StepCall

SpecStep == InitStep /\ [][NextStep]_vars

\* trainer.fit(model, train_loader, val_loader) on datasets of bounded size
Init ==
    /\ pred = <<>> /\ mask = <<>> /\ out = NotCalled /\ call = NoStep
    /\ trainSize \in Sizes
    /\ valSize \in Sizes
    /\ FitNotStarted

Next ==
    \/ Fit
    \/ SanityStep
    \/ TrainingStep
    \/ ValidationStep
    \/ TrainEpochEnd
    \/ Interrupt

Spec == Init /\ [][Next]_vars

\* The same run where fit keeps going while it can: the loops of trainer.fit
\* run one step after the other until fit returns; only the interrupt, which
\* comes from outside, may or may not happen.
FitStep == Fit \/ SanityStep \/ TrainingStep \/ ValidationStep \/ TrainEpochEnd
SpecFair == Spec /\ WF_vars(FitStep)

\* ====================================================== claims: DiceLoss
Called == out # NotCalled
SameShape == ShapeOf(pred) = ShapeOf(mask)
Returned == out.kind = "returned" /\ out.loss.kind = "value"

\* the sum of a tensor's entries and the sum of the entrywise products of two
\* equal-shaped tensors, taken entry by entry over the index set, in units of
\* 1/Scale and 1/Scale^2
RECURSIVE SumOver(_, _)
SumOver(f, S) ==
    IF S = {} THEN 0
    ELSE LET x == CHOOSE y \in S : TRUE IN f[x] + SumOver(f, S \ {x})

Cells(t) == IF t = <<>> THEN {} ELSE (1..Len(t)) \X (1..Len(t[1]))
Total(t) == SumOver([c \in Cells(t) |-> t[c[1]][c[2]]], Cells(t))
Inner(p, m) ==
    SumOver([c \in Cells(p) |-> p[c[1]][c[2]] * m[c[1]][c[2]]], Cells(p))

AllEntries(t, S) == \A c \in Cells(t) : t[c[1]][c[2]] \in S
AllZero(t) == AllEntries(t, {0})

\* q <= t/u and q >= t/u for a quotient q of eps forms and integers t, u > 0
QLeq(q, t, u) == FLeqZero(FSub(FScale(u, q.num), FScale(t, q.den)))
QGeq(q, t, u) == FLeqZero(FSub(FScale(t, q.den), FScale(u, q.num)))
\* |q - t/u| <= 1e-6
Tol == 10 ^ 6
Approx(q, t, u) == QLeq(q, t * Tol + u, u * Tol) /\ QGeq(q, t * Tol - u, u * Tol)

\* C1: for equal-shaped P and M the call returns exactly
\* 1 - 2*sum(P_i*M_i) / (sum(P_i) + sum(M_i) + 1e-8), the 1e-8 always added; and
\* P = [1,1,0,0], M = [1,0,0,0] gives intersection 1, a denominator of about 3
\* and a loss of about 0.333.
C1_Formula ==
    (Called /\ SameShape) =>
        /\ Returned
        /\ out.counter = Inner(pred, mask)
        /\ out.denum = <<Total(pred) + Total(mask), Scale>>
        /\ out.loss.den = <<Scale * (Total(pred) + Total(mask)), Scale * Scale>>
        /\ out.loss.num =
              <<Scale * (Total(pred) + Total(mask)) - 2 * Inner(pred, mask),
                Scale * Scale>>
        /\ (pred = ScenarioP /\ mask = ScenarioM) =>
              /\ out.counter = Scale * Scale
              /\ out.denum = <<3 * Scale, Scale>>
              /\ Approx(out.loss, 1, 3)
              /\ QLeq(out.loss, 334, 1000) /\ QGeq(out.loss, 332, 1000)

C1_Witness == Called /\ pred = ScenarioP /\ mask = ScenarioM /\ Returned

\* C2 as stated: for all equal-shaped non-negative P and M the loss is finite
\* and lies in [0, 1] within tolerance.
C2_Original ==
    (Called /\ SameShape) =>
        /\ Returned
        /\ QGeq(out.loss, -1, Tol)
        /\ QLeq(out.loss, Tol + 1, Tol)

\* C2 amended: for all equal-shaped P and M with entries in [0, 1] the loss is
\* finite and lies in [0, 1] within tolerance.
InUnit(t) == AllEntries(t, 0..Scale)

C2_Amended ==
    (Called /\ SameShape /\ InUnit(pred) /\ InUnit(mask)) =>
        /\ Returned
        /\ QGeq(out.loss, -1, Tol)
        /\ QLeq(out.loss, Tol + 1, Tol)

C2_Witness ==
    /\ Called /\ SameShape /\ InUnit(pred) /\ InUnit(mask)
    /\ ~AllEntries(pred, {0, Scale})
    /\ Inner(pred, mask) > 0
    /\ Returned

\* C3 as stated: dice_loss(X, X) is approximately 0 for any X that is not
\* all-zero.
C3_Original ==
    (Called /\ pred = mask /\ ~AllZero(pred)) =>
        Returned /\ Approx(out.loss, 0, 1)

\* C3 amended: dice_loss(X, X) is approximately 0 for any X with entries in
\* {0, 1} that is not all-zero.
Binary(t) == AllEntries(t, {0, Scale})

C3_Amended ==
    (Called /\ pred = mask /\ Binary(pred) /\ ~AllZero(pred)) =>
        Returned /\ Approx(out.loss, 0, 1)

C3_Witness ==
    /\ Called /\ pred = mask /\ Binary(pred) /\ ~AllZero(pred)
    /\ Cardinality(Cells(pred)) >= 2
    /\ Returned

\* C4: with prediction and mask both all-zero the loss is approximately 1, and
\* no division by zero occurs: the denominator sum(P) + sum(M) + 1e-8 is
\* strictly positive for every pair of non-negative inputs.
C4_Formula ==
    /\ (Called /\ out.kind = "returned") =>
          /\ FPos(out.denum)
          /\ out.loss.kind = "value"
    /\ (Called /\ SameShape /\ AllZero(pred) /\ AllZero(mask)) =>
          Returned /\ Approx(out.loss, 1, 1)

C4_Witness ==
    /\ Called /\ SameShape /\ AllZero(pred) /\ AllZero(mask)
    /\ Cells(pred) # {}
    /\ Returned

\* C5: dice_loss(P, M) equals dice_loss(M, P) for all equal-shaped P and M.
C5_Formula ==
    (Called /\ SameShape) => out = Forward(mask, pred)

C5_Witness ==
    /\ Called /\ SameShape /\ Returned
    /\ Total(pred) # Total(mask)
    /\ Inner(pred, mask) > 0

\* C6: when prediction and mask do not flatten to the same length the call
\* fails with an error and yields no loss value, also when one of them has a
\* single element.
C6_Claim ==
    (Called /\ Len(Flatten(pred)) # Len(Flatten(mask))) => out = ShapeError

\* ====================================================== claims: trainer.fit
\* ceil(size / batch_size), as the least n with n * batch_size >= size
CeilBatches(size) ==
    CHOOSE n \in 0..size :
        n * batch_size >= size /\ (n = 0 \/ (n - 1) * batch_size < size)

\* the ascending sequence of a set of integers
RECURSIVE Ascending(_)
Ascending(S) ==
    IF S = {} THEN <<>>
    ELSE LET m == CHOOSE x \in S : \A y \in S : x <= y
         IN  <<m>> \o Ascending(S \ {m})

\* the scores offered so far, one per completed epoch, and the scores retained
OfferedScores == {epochLog[i].score : i \in 1..Len(epochLog)}
RetainedScores == {bestK[i].score : i \in 1..Len(bestK)}
DistinctOffers == Cardinality(OfferedScores) = Len(epochLog)
KeptCount == Min(Len(epochLog), save_top_k)

Offering == stage = "epoch_end" /\ ckptCalls' = ckptCalls + 1

C8_Formula ==
    [][ ( /\ Offering
          /\ Len(bestK) = save_top_k
          /\ \A i \in 1..Len(bestK) : valAcc > bestK[i].score )
        => (bestK' = bestK /\ kthBest' = kthBest) ]_vars

\* the last candidate arrived with K retained and was worse than all of them
C8_Witness ==
    /\ Len(epochLog) > save_top_k
    /\ Len(bestK) = save_top_k
    /\ \A i \in 1..Len(bestK) :
          /\ epochLog[Len(epochLog)].score > bestK[i].score
          /\ bestK[i].epoch + 1 < Len(epochLog)

\* C9: every epoch executes exactly ceil(T/B) training steps and exactly
\* ceil(V/B) validation steps: a final partial batch is processed.
C9_Formula ==
    /\ \A i \in 1..Len(epochLog) :
          /\ epochLog[i].train = CeilBatches(trainSize)
          /\ epochLog[i].val = CeilBatches(valSize)
    /\ trainCount <= CeilBatches(trainSize)
    /\ valCount <= CeilBatches(valSize)

C9_Witness ==
    /\ stage = "done"
    /\ trainSize % batch_size # 0 /\ trainSize > batch_size
    /\ valSize % batch_size # 0 /\ valSize > batch_size
    /\ epochLog[1].train = 2 /\ epochLog[1].val = 2

\* C10: in every epoch a validation step executes only after all training
\* steps of the epoch, no training step follows a validation step of the
\* epoch, and the checkpoint policy is invoked once per epoch, after all
\* validation steps of the epoch.
C10_Formula ==
    /\ [][ /\ (valCount' = valCount + 1) =>
                /\ trainCount = CeilBatches(trainSize)
                /\ trainCount' = trainCount
           /\ (trainCount' = trainCount + 1) => valCount = 0
           /\ (ckptCalls' # ckptCalls) =>
                /\ ckptCalls' = ckptCalls + 1
                /\ ckptCalls = epoch /\ epoch' = epoch + 1
                /\ trainCount = CeilBatches(trainSize)
                /\ valCount = CeilBatches(valSize)
           /\ (epoch' # epoch) => ckptCalls' = ckptCalls + 1 ]_vars
    /\ [](ckptCalls = epoch)

C10_Witness ==
    /\ stage = "val" /\ epoch >= 1
    /\ valCount = 1 /\ trainCount = 2
    /\ ckptCalls = epoch

\* C11: a validation step leaves the model parameters unchanged; only a
\* training step (its backward pass and optimizer update) changes them.
C11_Formula ==
    [][ /\ (stage \in {"val", "sanity"}) => params' = params
        /\ (valCount' = valCount + 1) => params' = params
        /\ (params' # params) =>
              /\ stage = "train"
              /\ trainCount' = trainCount + 1
              /\ params' = params + 1 ]_vars

C11_Witness ==
    /\ stage = "val" /\ valCount = 1 /\ epoch = 1
    /\ params = (epoch + 1) * 2
    /\ params = globalStep

\* C12: when training is interrupted between batches of an epoch, the retained
\* checkpoint list and the files on disk are those of the last completed
\* epoch: the interrupt writes no record for the partial epoch and changes or
\* removes none, and every file holds the parameters its epoch ended with.
FilesMatchRecords ==
    /\ {f.epoch : f \in saved} = {bestK[i].epoch : i \in 1..Len(bestK)}
    /\ Cardinality(saved) = Len(bestK)
    /\ \A f \in saved :
          /\ f.epoch < epoch
          /\ f.epoch + 1 <= Len(epochLog)
          /\ f.params = (f.epoch + 1) * epochLog[f.epoch + 1].train

C12_Formula ==
    /\ [][ (stage' = "interrupted" /\ stage # "interrupted") =>
              /\ bestK' = bestK /\ kthBest' = kthBest /\ saved' = saved
              /\ epochLog' = epochLog ]_vars
    /\ [](FilesMatchRecords)

C12_Witness ==
    /\ stage = "interrupted"
    /\ epoch >= 2
    /\ trainCount = 1 /\ consumed > 0
    /\ Len(bestK) = save_top_k
    /\ \E f \in saved : f.epoch = epoch - 1

\* C13 as stated: every training step and every validation step appends its
\* own loss to the metric log exactly once, under 'Train Dice' or 'Val Dice',
\* tagged with the global step counter at the time of the step; the log is
\* append-only and ordered by step.
IsPrefix(a, b) == Len(a) <= Len(b) /\ SubSeq(b, 1, Len(a)) = a
OrderedByStep(log) ==
    \A i \in 1..Len(log) : \A j \in 1..Len(log) :
        i <= j => log[i].step <= log[j].step
CountOf(log, name) == Cardinality({i \in 1..Len(log) : log[i].name = name})

C13_Original ==
    /\ [][ /\ (trainCount' = trainCount + 1) =>
                /\ metricLog' = Append(metricLog, [name |-> "Train Dice",
                                                   step |-> globalStep])
                /\ lastMetric'.value = lastStep'.loss
           /\ (valCount' = valCount + 1) =>
                /\ metricLog' = Append(metricLog, [name |-> "Val Dice",
                                                   step |-> globalStep])
                /\ lastMetric'.value = lastStep'.loss
           /\ IsPrefix(metricLog, metricLog') ]_vars
    /\ [](OrderedByStep(metricLog))

\* C13 amended: every training step appends its loss exactly once under
\* 'Train Dice', tagged with the global step counter at the time of the step;
\* the validation steps of an epoch append nothing of their own: after the
\* last of them one 'Val Dice' entry is appended, the mean of the epoch's
\* validation losses weighted by batch length, tagged with the step of the
\* epoch's last training step (global step - 1); the steps of the sanity
\* check append nothing; the log is append-only and ordered by step.
C13_Amended ==
    /\ [][ /\ (trainCount' = trainCount + 1) =>
                /\ metricLog' = Append(metricLog, [name |-> "Train Dice",
                                                   step |-> globalStep])
                /\ lastMetric'.value = lastStep'.loss
           /\ (valCount' = valCount + 1 /\ stage' = "epoch_end") =>
                /\ metricLog' = Append(metricLog, [name |-> "Val Dice",
                                                   step |-> globalStep - 1])
                /\ lastMetric'.value = valAcc'
           /\ (valCount' = valCount + 1 /\ stage' # "epoch_end") =>
                metricLog' = metricLog /\ lastMetric' = lastMetric
           /\ (stage = "sanity") => metricLog' = metricLog
           /\ IsPrefix(metricLog, metricLog') ]_vars
    /\ [](/\ OrderedByStep(metricLog)
          /\ CountOf(metricLog, "Train Dice") = globalStep
          /\ CountOf(metricLog, "Val Dice") \in {Len(epochLog), Len(epochLog) + 1})

C13_Witness ==
    /\ stage = "epoch_end" /\ epoch >= 1
    /\ trainCount = 2 /\ valCount = 2
    /\ Len(metricLog) = globalStep + epoch + 1
    /\ metricLog[Len(metricLog)] = [name |-> "Val Dice", step |-> globalStep - 1]
    /\ metricLog[Len(metricLog) - 1] =
          [name |-> "Train Dice", step |-> globalStep - 1]
    /\ lastMetric.value = valAcc
    /\ lastStep.loss * valSize # valAcc

\* C14: unless interrupted, fit runs exactly max_epochs epochs and then stops:
\* it ends after the epoch that brings the count to max_epochs and after no
\* other, whatever the validation score, and every run ends (done, or
\* interrupted).
C14_Formula ==
    /\ [][ (stage = "epoch_end" /\ stage' # "interrupted") =>
              /\ stage' \in {"done", "train"}
              /\ (stage' = "done") <=> (epoch + 1 = max_epochs) ]_vars
    /\ [](stage = "done" =>
              /\ epoch = max_epochs
              /\ Len(epochLog) = max_epochs
              /\ ckptCalls = max_epochs
              /\ \A i \in 1..Len(epochLog) :
                    epochLog[i].train = CeilBatches(trainSize)
                    /\ epochLog[i].val = CeilBatches(valSize))
    /\ <>(stage \in {"done", "interrupted"})

C14_Witness ==
    /\ stage = "done"
    /\ Len(epochLog) = max_epochs
    /\ epochLog[1].score = 0
    /\ epochLog[2].score > epochLog[1].score
    /\ epochLog[3].score > epochLog[2].score

\* C15: when save_top_k records are retained, the candidate is inserted, and
\* one record with the worst (highest) retained score evicted, if and only if
\* its score is strictly lower than the worst retained score; a candidate
\* whose score equals it is discarded and the list is left as it was. When
\* fewer are retained the candidate is always inserted and nothing is evicted.
Records(best) == {best[i] : i \in 1..Len(best)}

C15_Formula ==
    [][ Offering =>
          LET cand == [epoch |-> epoch, score |-> valAcc]
              inserted == cand \in Records(bestK')
          IN  IF Len(bestK) = save_top_k
              THEN /\ inserted <=> valAcc < MaxScore(bestK)
                   /\ inserted =>
                        /\ Len(bestK') = save_top_k
                        /\ \E r \in Records(bestK) :
                              /\ r.score = MaxScore(bestK)
                              /\ Records(bestK') =
                                    (Records(bestK) \ {r}) \cup {cand}
                   /\ ~inserted => bestK' = bestK /\ saved' = saved
                   /\ valAcc = MaxScore(bestK) => ~inserted
              ELSE /\ inserted
                   /\ Records(bestK') = Records(bestK) \cup {cand}
                   /\ Len(bestK') = Len(bestK) + 1 ]_vars

C15_Witness ==
    /\ Len(bestK) = save_top_k
    /\ Len(epochLog) > save_top_k
    /\ epochLog[Len(epochLog)].score = MaxScore(bestK)
    /\ \A i \in 1..Len(bestK) : bestK[i].epoch # Len(epochLog) - 1
    /\ \E i \in 1..Len(bestK) : bestK[i].epoch = Len(epochLog) - 2
    /\ \E i \in 1..Len(bestK) : bestK[i].score < MaxScore(bestK)

\* ====================================================== claims: the steps
\* C16: a training step sends a figure exactly when its batch_idx is a
\* multiple of 50 and a validation step exactly when its batch_idx is a
\* multiple of 2, so batch 0 always sends one; sending it is a side effect
\* only: the loss the step returns and passes to the logger is the Dice loss
\* of its pred and mask, whatever the batch_idx, and pred and mask are left
\* as they were.
MultipleOf(n, k) == \E q \in 0..n : n = k * q

C16_Formula ==
    /\ [](out # NotCalled =>
            LET due == IF call.kind = "train" THEN MultipleOf(call.idx, 50)
                       ELSE MultipleOf(call.idx, 2)
            IN  /\ lastStep.figure <=> due
                /\ figLog = IF due
                            THEN <<[name |-> FigureName(call.kind),
                                    step |-> globalStep]>>
                            ELSE <<>>
                /\ call.idx = 0 => Len(figLog) = 1
                /\ lastStep.loss = Forward(pred, mask).loss
                /\ call.kind = "train" => lastMetric.value = lastStep.loss
                /\ lastStep.kind = call.kind /\ lastStep.idx = call.idx)
    /\ [][pred' = pred /\ mask' = mask /\ params' = params]_vars

C16_Witness ==
    /\ out # NotCalled
    /\ call = [kind |-> "train", idx |-> 50]
    /\ figLog = <<[name |-> "Train", step |-> 0]>>
    /\ lastStep.loss = out.loss
    /\ pred = << <<1>>, <<Scale>> >> /\ mask = << <<0>>, <<Scale>> >>

\* ====================================================== claims: flattening
\* C17: the loss depends only on the flattened element sequences: reshaping
\* either argument without changing its element order leaves the result
\* unchanged, and so does exchanging any two positions in both arguments
\* (every permutation is a product of such exchanges); so for a batch, rows
\* being samples, the loss is one ratio of sums taken over the whole batch,
\* which can differ from the mean of the per-sample losses.
Swap(s, i, j) ==
    [k \in 1..Len(s) |-> IF k = i THEN s[j] ELSE IF k = j THEN s[i] ELSE s[k]]

C17_Formula ==
    Called =>
        /\ \A sh \in ShapesOf(pred) : Forward(Reshape(pred, sh), mask) = out
        /\ \A sh \in ShapesOf(mask) : Forward(pred, Reshape(mask, sh)) = out
        /\ Len(Flatten(pred)) = Len(Flatten(mask)) =>
              \A i \in 1..Len(Flatten(pred)) : \A j \in 1..Len(Flatten(pred)) :
                  Forward(<<Swap(Flatten(pred), i, j)>>,
                          <<Swap(Flatten(mask), i, j)>>) = out
        /\ (SameShape /\ pred # <<>>) =>
              /\ out.counter =
                    SumSeq([i \in 1..Len(pred) |-> Counter(pred[i], mask[i])])
              /\ out.denum[1] =
                    SumSeq([i \in 1..Len(pred) |->
                               SumSeq(pred[i]) + SumSeq(mask[i])])
              /\ out.loss = OneMinus(Divide(<<2 * out.counter, 0>>,
                                            FScale(Scale, out.denum)))

\* a batch of two one-pixel samples: the loss of the batch is about 1/3, the
\* per-sample losses are about 0 and exactly 1, their mean about 1/2
C17_Witness ==
    /\ Called
    /\ pred = << <<Scale>>, <<0>> >>
    /\ mask = << <<Scale>>, <<Scale>> >>
    /\ Approx(out.loss, 1, 3)
    /\ out = Forward(<< <<Scale, 0>> >>, << <<Scale, Scale>> >>)
    /\ Approx(Forward(<<pred[1]>>, <<mask[1]>>).loss, 0, 1)
    /\ Approx(Forward(<<pred[2]>>, <<mask[2]>>).loss, 1, 1)

====
